---- MODULE Spec2Model ----
(***************************************************************************)
(* A model of the resume screener: the scoring arithmetic of               *)
(* ResumeEvaluator (Python floats, i.e. IEEE-754 binary64 with             *)
(* round-to-nearest-even), the recommendation thresholds, the batch loop   *)
(* of evaluate_resumes / evaluate_resumes_backend and the two front ends.  *)
(***************************************************************************)
EXTENDS Integers, Sequences, FiniteSets, TLC

(***************************************************************************)
(* Natural numbers of arbitrary size: little-endian sequences of 15-bit    *)
(* limbs, without leading (most significant) zero limbs; <<>> is zero.     *)
(* They carry the 53-bit significands of Python floats and the exact       *)
(* products and sums that the float operations round.                      *)
(***************************************************************************)
LimbBits == 15

Base == 2 ^ LimbBits

RECURSIVE BigTrim(_)
BigTrim(a) ==
  IF a = <<>> THEN a
  ELSE IF a[Len(a)] = 0 THEN BigTrim(SubSeq(a, 1, Len(a) - 1)) ELSE a

RECURSIVE BigFromInt(_)
BigFromInt(n) ==
  IF n = 0 THEN <<>> ELSE <<n % Base>> \o BigFromInt(n \div Base)

RECURSIVE BigAddC(_, _, _)
BigAddC(a, b, c) ==
  IF a = <<>> /\ b = <<>> THEN (IF c = 0 THEN <<>> ELSE <<c>>)
  ELSE LET x == IF a = <<>> THEN 0 ELSE Head(a)
           y == IF b = <<>> THEN 0 ELSE Head(b)
           s == x + y + c
       IN  <<s % Base>> \o BigAddC(IF a = <<>> THEN a ELSE Tail(a),
                                   IF b = <<>> THEN b ELSE Tail(b),
                                   s \div Base)

BigAdd(a, b) == BigAddC(a, b, 0)

\* a - b for a >= b, with borrow c
RECURSIVE BigSubC(_, _, _)
BigSubC(a, b, c) ==
  IF a = <<>> THEN <<>>
  ELSE LET y == IF b = <<>> THEN 0 ELSE Head(b)
           d == Head(a) - y - c
       IN  <<d % Base>> \o BigSubC(Tail(a),
                                   IF b = <<>> THEN b ELSE Tail(b),
                                   IF d < 0 THEN 1 ELSE 0)

BigSub(a, b) == BigTrim(BigSubC(a, b, 0))

\* the sign of a - b, looking at the limbs from index i downwards
RECURSIVE BigCmpFrom(_, _, _)
BigCmpFrom(a, b, i) ==
  IF i = 0 THEN 0
  ELSE IF a[i] > b[i] THEN 1
  ELSE IF a[i] < b[i] THEN -1
  ELSE BigCmpFrom(a, b, i - 1)

BigCmp(a, b) ==
  IF Len(a) > Len(b) THEN 1
  ELSE IF Len(a) < Len(b) THEN -1
  ELSE BigCmpFrom(a, b, Len(a))

\* a * k + c for a limb-sized k
RECURSIVE BigMulSmallC(_, _, _)
BigMulSmallC(a, k, c) ==
  IF a = <<>> THEN BigFromInt(c)
  ELSE LET p == Head(a) * k + c
       IN  <<p % Base>> \o BigMulSmallC(Tail(a), k, p \div Base)

BigMulSmall(a, k) == BigTrim(BigMulSmallC(a, k, 0))

RECURSIVE BigMulRaw(_, _)
BigMulRaw(a, b) ==
  IF b = <<>> THEN <<>>
  ELSE BigAdd(BigMulSmallC(a, Head(b), 0), <<0>> \o BigMulRaw(a, Tail(b)))

BigMul(a, b) == BigTrim(BigMulRaw(a, b))

\* quotient (untrimmed) and remainder of a by a limb-sized d > 0
RECURSIVE BigDivRaw(_, _)
BigDivRaw(a, d) ==
  IF a = <<>> THEN [q |-> <<>>, r |-> 0]
  ELSE LET hi  == BigDivRaw(Tail(a), d)
           cur == hi.r * Base + Head(a)
       IN  [q |-> <<cur \div d>> \o hi.q, r |-> cur % d]

BigDivSmall(a, d) ==
  LET x == BigDivRaw(a, d) IN [q |-> BigTrim(x.q), r |-> x.r]

BigShl(a, s) ==
  BigTrim([i \in 1..(s \div LimbBits) |-> 0] \o BigMulSmallC(a, 2 ^ (s % LimbBits), 0))

BigShr(a, s) ==
  IF s \div LimbBits >= Len(a) THEN <<>>
  ELSE BigDivSmall(SubSeq(a, (s \div LimbBits) + 1, Len(a)), 2 ^ (s % LimbBits)).q

RECURSIVE IntBitLen(_)
IntBitLen(n) == IF n = 0 THEN 0 ELSE 1 + IntBitLen(n \div 2)

BigBitLen(a) ==
  IF a = <<>> THEN 0 ELSE LimbBits * (Len(a) - 1) + IntBitLen(a[Len(a)])

BigOdd(a) == a # <<>> /\ a[1] % 2 = 1

\* n / 2^s rounded to the nearest integer, an exact tie going to the even one
BigShrHalfEven(n, s) ==
  IF s = 0 THEN n
  ELSE LET q    == BigShr(n, s)
           r    == BigSub(n, BigShl(q, s))
           c    == BigCmp(r, BigShl(<<1>>, s - 1))
       IN  IF c = 1 \/ (c = 0 /\ BigOdd(q)) THEN BigAdd(q, <<1>>) ELSE q

(***************************************************************************)
(* Python floats (non-negative, normal binary64): the value m * 2^e with   *)
(* a significand m of exactly MantBits bits; zero is [m |-> <<>>, e |-> 0].*)
(***************************************************************************)
MantBits == 53

FZero == [m |-> <<>>, e |-> 0]

\* the float nearest to n * 2^e (round-to-nearest, ties-to-even)
FRound(n, e) ==
  IF n = <<>> THEN FZero
  ELSE LET L == BigBitLen(n) IN
       IF L <= MantBits
         THEN [m |-> BigShl(n, MantBits - L), e |-> e - (MantBits - L)]
         ELSE LET s == L - MantBits
                  q == BigShrHalfEven(n, s)
              IN  IF BigBitLen(q) > MantBits
                    THEN [m |-> BigShr(q, 1), e |-> e + s + 1]
                    ELSE [m |-> q, e |-> e + s]

FMul(x, y) == FRound(BigMul(x.m, y.m), x.e + y.e)

FAdd(x, y) ==
  IF x.m = <<>> THEN y
  ELSE IF y.m = <<>> THEN x
  ELSE LET e == IF x.e < y.e THEN x.e ELSE y.e
       IN  FRound(BigAdd(BigShl(x.m, x.e - e), BigShl(y.m, y.e - e)), e)

\* the float nearest to p / q, p a natural and q a limb-sized positive integer:
\* int / int true division, and the reading of a decimal literal p / 10^k
FDivBig(p, q) ==
  IF p = <<>> THEN FZero
  ELSE LET k == 2 * MantBits
           d == BigDivSmall(BigShl(p, k), q)
           n == BigAdd(BigShl(d.q, 1), IF d.r # 0 THEN <<1>> ELSE <<>>)
       IN  FRound(n, 0 - k - 1)

FDiv(p, q) == FDivBig(BigFromInt(p), q)

\* the sign of x - y
FCmp(x, y) ==
  IF x.m = <<>> /\ y.m = <<>> THEN 0
  ELSE IF x.m = <<>> THEN -1
  ELSE IF y.m = <<>> THEN 1
  ELSE IF x.e > y.e THEN 1
  ELSE IF x.e < y.e THEN -1
  ELSE BigCmp(x.m, y.m)

FGe(x, y) == FCmp(x, y) >= 0

FLe(x, y) == FCmp(x, y) <= 0

FLt(x, y) == FCmp(x, y) < 0

\* a slip: the score cut to two decimals instead of rounded
PyTruncate2(x) ==
  IF x.m = <<>> \/ x.e >= 0 THEN x
  ELSE FDivBig(BigShr(BigMulSmall(x.m, 100), 0 - x.e), 100)

\* round(x, 2): the float nearest to the two-decimal number nearest to the
\* exact value of x (an exact binary tie going to the even hundredth)
PyRound2(x) ==
  IF x.m = <<>> \/ x.e >= 0 THEN x
  ELSE FDivBig(BigShrHalfEven(BigMulSmall(x.m, 100), 0 - x.e), 100)

(***************************************************************************)
(* ResumeEvaluator: the classifier and the aggregator.                     *)
(***************************************************************************)
\* the float of the decimal literal p / q (q a power of ten)
Lit(p, q) == FDiv(p, q)

F075 == Lit(75, 100)

F050 == Lit(50, 100)

FOne == Lit(1, 1)

W_skill == Lit(40, 100)

W_experience == Lit(30, 100)

W_production == Lit(15, 100)

W_domain == Lit(15, 100)

\* a slip: the thresholds taken as strict
get_recommendation_strict(self, score) ==
  IF FLt(F075, score) THEN "Shortlist"
  ELSE IF FLt(F050, score) THEN "Review"
  ELSE "Reject"

get_recommendation(self, score) ==
  IF FGe(score, F075) THEN "Shortlist"
  ELSE IF FGe(score, F050) THEN "Review"
  ELSE "Reject"

weighted_sum(skill_match_ratio, experience_match, production_experience, domain_fit) ==
  FAdd(FAdd(FAdd(FMul(W_skill, skill_match_ratio),
                 FMul(W_experience, experience_match)),
            FMul(W_production, production_experience)),
       FMul(W_domain, domain_fit))

\* a slip: the raw sum handed back when debugging
calculate_fit_score_raw_in_debug(self, skill_match_ratio, experience_match, production_experience, domain_fit) ==
  LET w == weighted_sum(skill_match_ratio, experience_match,
                        production_experience, domain_fit)
  IN  IF self.debug_mode THEN w ELSE PyRound2(w)

\* a slip: the score clamped to 1.0
calculate_fit_score_clamped(self, skill_match_ratio, experience_match, production_experience, domain_fit) ==
  LET r == PyRound2(weighted_sum(skill_match_ratio, experience_match,
                                 production_experience, domain_fit))
  IN  IF FGe(r, FOne) THEN FOne ELSE r

calculate_fit_score(self, skill_match_ratio, experience_match, production_experience, domain_fit) ==
  PyRound2(weighted_sum(skill_match_ratio, experience_match,
                        production_experience, domain_fit))

(***************************************************************************)
(* Values and inputs.                                                      *)
(***************************************************************************)
None == [type |-> "NoneType"]

MaxResumes == 2

MaxSkills == 2

SkillNames == <<"Python", "SQL", "Docker", "Go">>

Max(a, b) == IF a > b THEN a ELSE b

\* the evaluator objects the front ends construct
Evaluators ==
  [output_path : {"outputs", "temp_dir"},
   model_name  : {"gemma3:12b", "gemma3:27b"},
   debug_mode  : BOOLEAN]

\* the rubric values of the analyzer prompt, as json.loads reads them
F00 == Lit(0, 10)

F03 == Lit(3, 10)

F04 == Lit(4, 10)

F07 == Lit(7, 10)

F10 == Lit(10, 10)

\* what the chat call can come back with: no reply at all (the service is
\* unreachable or the call raises), a reply that is not JSON, or a JSON object
Unavailable == [kind |-> "unavailable"]

NotJson == [kind |-> "not_json"]

Json(v) == [kind |-> "json", value |-> v]

RequiredSkillLists == {SubSeq(SkillNames, 1, n) : n \in 0..MaxSkills}

JobReplies ==
  {Unavailable, NotJson}
    \cup {Json([required_skills |-> s]) : s \in RequiredSkillLists}

\* matched_skills as the analyzer may report them: a prefix of the skill
\* names (a subset of the required skills or not) or a list with a duplicate
MatchedLists ==
  {SubSeq(SkillNames, 1, n) : n \in 0..MaxSkills} \cup {<<"Python", "Python">>}

SubScores ==
  {<<F00, F00, F00>>, <<F07, F10, F07>>, <<F10, F10, F10>>}

AnalysisReplies ==
  {Unavailable, NotJson}
    \cup {Json([matched_skills        |-> ms,
                experience_match      |-> t[1],
                production_experience |-> t[2],
                domain_fit            |-> t[3]]) : ms \in MatchedLists, t \in SubScores}

VARIABLES
  front,             \* "cli" (main.py), "web" (app.py) or "fn" (a bare call)
  pc,                \* the position of the running script
  job_description,   \* the job description; None: its file cannot be read
  resume_files,      \* the batch: the resume file names, in input order
  self,              \* the ResumeEvaluator, None before it is constructed
  job_requirements,  \* evaluate_resumes' local
  id,                \* the loop index of evaluate_resumes (0-based)
  resume_text,       \* the loop's local
  analysis,          \* the loop's local
  skill_match_ratio, \* the loop's local
  results,           \* the loop's result list
  evaluation,        \* the report evaluate_resumes returned, None before
  error,             \* the exception raised, "none" while there is none
  outputs,           \* the outputs directory and evaluation_results.json
  session,           \* st.session_state (results, evaluation_done)
  shown,             \* the skill-match percentages the results page shows
  calls,             \* the calls made to the LLM so far, with their outcome
  fn_args,           \* the arguments of a bare call
  fn_out             \* its result

vars ==
  <<front, pc, job_description, resume_files, self, job_requirements, id,
    resume_text, analysis, skill_match_ratio, results, evaluation, error,
    outputs, session, shown, calls, fn_args, fn_out>>

run_vars ==
  <<job_requirements, id, resume_text, analysis, skill_match_ratio, results,
    evaluation, calls>>

fn_vars == <<fn_args, fn_out>>

(***************************************************************************)
(* ResumeEvaluator.get_llm_response: the chat call and json.loads sit in   *)
(* one try block whose handler prints and falls off the end.               *)
(***************************************************************************)
get_llm_response(evaluator, reply) ==
  IF reply.kind = "json" THEN reply.value ELSE None

extract_job_requirements(evaluator, reply) == get_llm_response(evaluator, reply)

analyze_single_resume(evaluator, reqs, text, resume_id, reply) ==
  get_llm_response(evaluator, reply)

(***************************************************************************)
(* The body of the loop of evaluate_resumes / evaluate_resumes_backend.    *)
(***************************************************************************)
\* a slip: the count of matched skills taken for the ratio
skill_match_count_of(an, reqs) == FDiv(Len(an.matched_skills), 1)

skill_match_ratio_of(an, reqs) ==
  FDiv(Len(an.matched_skills), Max(Len(reqs.required_skills), 1))

\* a slip: the recommendation taken from the skill match ratio
make_result_by_ratio(evaluator, reqs, an, resume_file) ==
  LET ratio     == skill_match_ratio_of(an, reqs)
      fit_score == calculate_fit_score(evaluator, ratio, an.experience_match,
                                       an.production_experience, an.domain_fit)
  IN  [file_name             |-> resume_file,
       fit_score             |-> fit_score,
       matched_skills        |-> an.matched_skills,
       experience_match      |-> an.experience_match,
       production_experience |-> an.production_experience,
       domain_fit            |-> an.domain_fit,
       recommendation        |-> get_recommendation(evaluator, ratio)]

make_result(evaluator, reqs, an, resume_file) ==
  LET fit_score == calculate_fit_score(evaluator,
                                       skill_match_ratio_of(an, reqs),
                                       an.experience_match,
                                       an.production_experience,
                                       an.domain_fit)
  IN  [file_name             |-> resume_file,
       fit_score             |-> fit_score,
       matched_skills        |-> an.matched_skills,
       experience_match      |-> an.experience_match,
       production_experience |-> an.production_experience,
       domain_fit            |-> an.domain_fit,
       recommendation        |-> get_recommendation(evaluator, fit_score)]

\* a slip: a result placed before the results of equal score
RECURSIVE insert_desc_unstable(_, _)
insert_desc_unstable(r, s) ==
  IF s = <<>> THEN <<r>>
  ELSE IF FLt(r.fit_score, Head(s).fit_score)
         THEN <<Head(s)>> \o insert_desc_unstable(r, Tail(s))
         ELSE <<r>> \o s

\* sorted(results, key=lambda x: x["fit_score"], reverse=True): a stable
\* sort, so equal scores keep their input order
RECURSIVE insert_desc(_, _)
insert_desc(r, s) ==
  IF s = <<>> THEN <<r>>
  ELSE IF FGe(Head(s).fit_score, r.fit_score)
         THEN <<Head(s)>> \o insert_desc(r, Tail(s))
         ELSE <<r>> \o s

\* a slip: reverse=True left out
RECURSIVE insert_asc(_, _)
insert_asc(r, s) ==
  IF s = <<>> THEN <<r>>
  ELSE IF FLe(Head(s).fit_score, r.fit_score)
         THEN <<Head(s)>> \o insert_asc(r, Tail(s))
         ELSE <<r>> \o s

RECURSIVE sorted_asc(_)
sorted_asc(rs) ==
  IF rs = <<>> THEN <<>>
  ELSE insert_asc(rs[Len(rs)], sorted_asc(SubSeq(rs, 1, Len(rs) - 1)))

RECURSIVE sorted_desc(_)
sorted_desc(rs) ==
  IF rs = <<>> THEN <<>>
  ELSE insert_desc(rs[Len(rs)], sorted_desc(SubSeq(rs, 1, Len(rs) - 1)))

(***************************************************************************)
(* The initial state: a front end is started on its inputs.  The command   *)
(* line reads a job description file and a folder of resume files; the web *)
(* page holds a typed job description and the uploaded files.              *)
(***************************************************************************)
Text(t) == [text |-> t]

NoSession == [results |-> None, evaluation_done |-> FALSE]

NoOutputs == [dir |-> FALSE, file |-> None]

Batches == {[i \in 1..n |-> i] : n \in 0..MaxResumes}

IdleRun ==
  /\ job_requirements = None
  /\ id = 0
  /\ resume_text = None
  /\ analysis = None
  /\ skill_match_ratio = None
  /\ results = <<>>
  /\ evaluation = None
  /\ calls = <<>>

Init ==
  /\ front \in {"cli", "web"}
  /\ pc = "start"
  /\ job_description \in
       IF front = "cli" THEN {None, Text("text")}
       ELSE {Text(""), Text(" "), Text("text")}
  /\ resume_files \in Batches
  /\ self = None
  /\ IdleRun
  /\ error = "none"
  /\ outputs = NoOutputs
  /\ session = NoSession
  /\ shown = <<>>
  /\ fn_args = None
  /\ fn_out = None

(***************************************************************************)
(* main.py, __main__: lines 70-79.  read_file returns its local `data`     *)
(* after the handler, which is unbound when the file could not be read.    *)
(***************************************************************************)
CliStart ==
  /\ front = "cli" /\ pc = "start"
  /\ IF job_description = None
       THEN /\ error' = "UnboundLocalError"
            /\ pc' = "crashed"
            /\ UNCHANGED <<self, outputs>>
       ELSE IF Len(resume_files) < 1 \/ Len(job_description.text) < 0
         THEN /\ pc' = "exit"
              /\ UNCHANGED <<self, outputs, error>>
         ELSE /\ outputs' = [outputs EXCEPT !.dir = TRUE]
              /\ \E d \in BOOLEAN :
                   self' = [output_path |-> "outputs",
                            model_name |-> "gemma3:12b", debug_mode |-> d]
              /\ pc' = "extract"
              /\ UNCHANGED error
  /\ UNCHANGED <<front, job_description, resume_files, run_vars, session,
                 shown, fn_vars>>

(***************************************************************************)
(* app.py, the Evaluate button: lines 252-289 and 76-98.  The button is    *)
(* disabled unless a job description and resumes are given.                *)
(***************************************************************************)
WebEvaluate ==
  /\ front = "web" /\ pc = "start"
  /\ job_description # Text("") /\ Len(resume_files) > 0
  /\ IF job_description = Text(" ")
       THEN /\ pc' = "display"
            /\ UNCHANGED <<self, outputs>>
       ELSE /\ \E d \in BOOLEAN :
                 /\ self' = [output_path |-> IF d THEN "outputs" ELSE "temp_dir",
                             model_name |-> "gemma3:27b", debug_mode |-> d]
                 /\ outputs' = IF d THEN [outputs EXCEPT !.dir = TRUE] ELSE outputs
            /\ pc' = "extract"
  /\ UNCHANGED <<front, job_description, resume_files, run_vars, error,
                 session, shown, fn_vars>>

(***************************************************************************)
(* evaluate_resumes (main.py 10-51) and the same loop of                   *)
(* evaluate_resumes_backend (app.py 105-159).                              *)
(***************************************************************************)
ExtractJobRequirements ==
  /\ pc = "extract"
  /\ \E reply \in JobReplies :
       /\ job_requirements' = extract_job_requirements(self, reply)
       /\ calls' = Append(calls, [op |-> "extract", id |-> 0, kind |-> reply.kind])
  /\ results' = <<>>
  /\ id' = 0
  /\ pc' = IF Len(resume_files) > 0 THEN "read" ELSE "return"
  /\ UNCHANGED <<front, job_description, resume_files, self, resume_text,
                 analysis, skill_match_ratio, evaluation, error, outputs,
                 session, shown, fn_vars>>

\* read_file(resume_file): the text, or an UnboundLocalError when the file
\* cannot be opened or decoded (the web page reads back what it just wrote)
ReadResume ==
  /\ pc = "read"
  /\ \/ /\ resume_text' = Text("resume")
        /\ pc' = "analyze"
        /\ UNCHANGED error
     \/ /\ front = "cli"
        /\ error' = "UnboundLocalError"
        /\ pc' = "raised"
        /\ UNCHANGED resume_text
  /\ UNCHANGED <<front, job_description, resume_files, self, job_requirements,
                 id, analysis, skill_match_ratio, results, evaluation, calls,
                 outputs, session, shown, fn_vars>>

\* a slip: an analysis that failed is asked for once more
AnalyzeResumeRetrying ==
  /\ pc = "analyze"
  /\ \E reply \in AnalysisReplies :
       /\ analysis' = analyze_single_resume(self, job_requirements, resume_text,
                                            id, reply)
       /\ calls' = Append(calls, [op |-> "analyze", id |-> id, kind |-> reply.kind])
       /\ pc' = IF reply.kind = "unavailable" /\ calls[Len(calls)].op = "extract"
                  THEN "analyze" ELSE "score"
  /\ UNCHANGED <<front, job_description, resume_files, self, job_requirements,
                 id, resume_text, skill_match_ratio, results, evaluation, error,
                 outputs, session, shown, fn_vars>>

AnalyzeResume ==
  /\ pc = "analyze"
  /\ \E reply \in AnalysisReplies :
       /\ analysis' = analyze_single_resume(self, job_requirements, resume_text,
                                            id, reply)
       /\ calls' = Append(calls, [op |-> "analyze", id |-> id, kind |-> reply.kind])
  /\ pc' = "score"
  /\ UNCHANGED <<front, job_description, resume_files, self, job_requirements,
                 id, resume_text, skill_match_ratio, results, evaluation, error,
                 outputs, session, shown, fn_vars>>

\* a slip: a resume whose analysis is missing is skipped
ScoreResumeSkipping ==
  /\ pc = "score"
  /\ IF job_requirements = None
       THEN /\ error' = "TypeError"
            /\ pc' = "raised"
            /\ UNCHANGED <<skill_match_ratio, results, id>>
       ELSE /\ IF analysis = None
                 THEN UNCHANGED <<skill_match_ratio, results>>
                 ELSE /\ skill_match_ratio' =
                           skill_match_ratio_of(analysis, job_requirements)
                      /\ results' = Append(results,
                                           make_result(self, job_requirements,
                                                       analysis,
                                                       resume_files[id + 1]))
            /\ id' = id + 1
            /\ pc' = IF id + 1 < Len(resume_files) THEN "read" ELSE "return"
            /\ UNCHANGED error
  /\ UNCHANGED <<front, job_description, resume_files, self, job_requirements,
                 resume_text, analysis, evaluation, calls, outputs, session,
                 shown, fn_vars>>

\* lines 21-46: subscripting None raises TypeError
ScoreResume ==
  /\ pc = "score"
  /\ IF analysis = None \/ job_requirements = None
       THEN /\ error' = "TypeError"
            /\ pc' = "raised"
            /\ UNCHANGED <<skill_match_ratio, results, id>>
       ELSE /\ skill_match_ratio' = skill_match_ratio_of(analysis, job_requirements)
            /\ results' = Append(results,
                                 make_result(self, job_requirements, analysis,
                                             resume_files[id + 1]))
            /\ id' = id + 1
            /\ pc' = IF id + 1 < Len(resume_files) THEN "read" ELSE "return"
            /\ UNCHANGED error
  /\ UNCHANGED <<front, job_description, resume_files, self, job_requirements,
                 resume_text, analysis, evaluation, calls, outputs, session,
                 shown, fn_vars>>

\* a slip: the results returned in input order
ReturnReportUnsorted ==
  /\ pc = "return"
  /\ evaluation' = [job_requirements |-> job_requirements,
                    candidates       |-> results]
  /\ pc' = "returned"
  /\ UNCHANGED <<front, job_description, resume_files, self, job_requirements,
                 id, resume_text, analysis, skill_match_ratio, results, calls,
                 error, outputs, session, shown, fn_vars>>

ReturnReport ==
  /\ pc = "return"
  /\ evaluation' = [job_requirements |-> job_requirements,
                    candidates       |-> sorted_desc(results)]
  /\ pc' = "returned"
  /\ UNCHANGED <<front, job_description, resume_files, self, job_requirements,
                 id, resume_text, analysis, skill_match_ratio, results, calls,
                 error, outputs, session, shown, fn_vars>>

(***************************************************************************)
(* main.py line 82, and the end of a run that raised.                      *)
(***************************************************************************)
write_json_output(fs, data) == [fs EXCEPT !.file = data]

CliWrite ==
  /\ front = "cli" /\ pc = "returned"
  /\ outputs' = write_json_output(outputs, evaluation)
  /\ pc' = "done"
  /\ UNCHANGED <<front, job_description, resume_files, self, run_vars, error,
                 session, shown, fn_vars>>

CliCrash ==
  /\ front = "cli" /\ pc = "raised"
  /\ pc' = "crashed"
  /\ UNCHANGED <<front, job_description, resume_files, self, run_vars, error,
                 outputs, session, shown, fn_vars>>

(***************************************************************************)
(* app.py lines 293-311: the report is stored and the script reruns, or    *)
(* the handler shows the error.                                            *)
(***************************************************************************)
WebStore ==
  /\ front = "web" /\ pc = "returned"
  /\ session' = [results |-> evaluation, evaluation_done |-> TRUE]
  /\ pc' = "display"
  /\ UNCHANGED <<front, job_description, resume_files, self, run_vars, error,
                 outputs, shown, fn_vars>>

WebCatch ==
  /\ front = "web" /\ pc = "raised"
  /\ pc' = "display"
  /\ UNCHANGED <<front, job_description, resume_files, self, run_vars, error,
                 outputs, session, shown, fn_vars>>

(***************************************************************************)
(* app.py lines 313-469: the results page, for each candidate              *)
(* len(matched_skills) / len(required_skills) * 100 (the body of an        *)
(* expander runs whether or not it is opened).                             *)
(***************************************************************************)
skill_match_percent(candidate, reqs) ==
  FMul(FDiv(Len(candidate.matched_skills), Len(reqs.required_skills)),
       Lit(100, 1))

WebDisplay ==
  /\ front = "web" /\ pc = "display"
  /\ IF session.evaluation_done /\ session.results # None
       THEN LET report == session.results IN
            IF Len(report.candidates) > 0
                 /\ Len(report.job_requirements.required_skills) = 0
              THEN /\ error' = "ZeroDivisionError"
                   /\ pc' = "page_failed"
                   /\ UNCHANGED shown
              ELSE /\ shown' = [i \in 1..Len(report.candidates) |->
                                  skill_match_percent(report.candidates[i],
                                                      report.job_requirements)]
                   /\ pc' = "page"
                   /\ UNCHANGED error
       ELSE /\ pc' = "welcome"
            /\ UNCHANGED <<shown, error>>
  /\ UNCHANGED <<front, job_description, resume_files, self, run_vars,
                 outputs, session, fn_vars>>

Next ==
  \/ CliStart
  \/ WebEvaluate
  \/ ExtractJobRequirements
  \/ ReadResume
  \/ AnalyzeResume
  \/ ScoreResume
  \/ ReturnReport
  \/ CliWrite
  \/ CliCrash
  \/ WebStore
  \/ WebCatch
  \/ WebDisplay

Spec == Init /\ [][Next]_vars

(***************************************************************************)
(* Bare calls of the two pure methods, on arguments given as exact         *)
(* numbers: a score p/10000, a skill match ratio k/n and three sub-scores  *)
(* in tenths.  The call turns them into the floats Python would hold.      *)
(***************************************************************************)
MaxScoreHundredths == 120

ScoreInputs ==
  {1, 4999, 5001, 7499, 7501, 9999, 10001, 20000}
    \cup {100 * h : h \in 0..MaxScoreHundredths}

SubScoreTenths == {0, 3, 4, 7, 10, 15}

FitInputs ==
  [k : 0..(MaxSkills + 1), n : 1..MaxSkills,
   experience_match : SubScoreTenths, production_experience : SubScoreTenths,
   domain_fit : SubScoreTenths]

InitFn ==
  /\ front = "fn"
  /\ pc = "call"
  /\ job_description = None
  /\ resume_files = <<>>
  /\ self \in Evaluators
  /\ IdleRun
  /\ error = "none"
  /\ outputs = NoOutputs
  /\ session = NoSession
  /\ shown = <<>>
  /\ fn_args \in {[fn |-> "get_recommendation", score |-> p] : p \in ScoreInputs}
                   \cup {[fn |-> "calculate_fit_score", args |-> a] : a \in FitInputs}
  /\ fn_out = None

CallGetRecommendation ==
  /\ front = "fn" /\ pc = "call"
  /\ fn_args.fn = "get_recommendation"
  /\ fn_out' = [value |-> get_recommendation(self, Lit(fn_args.score, 10000))]
  /\ pc' = "returned"
  /\ UNCHANGED <<front, job_description, resume_files, self, run_vars, error,
                 outputs, session, shown, fn_args>>

CallCalculateFitScore ==
  /\ front = "fn" /\ pc = "call"
  /\ fn_args.fn = "calculate_fit_score"
  /\ LET a == fn_args.args IN
     fn_out' = [value |-> calculate_fit_score(self,
                                              FDiv(a.k, a.n),
                                              Lit(a.experience_match, 10),
                                              Lit(a.production_experience, 10),
                                              Lit(a.domain_fit, 10))]
  /\ pc' = "returned"
  /\ UNCHANGED <<front, job_description, resume_files, self, run_vars, error,
                 outputs, session, shown, fn_args>>

NextFn == CallGetRecommendation \/ CallCalculateFitScore

SpecFn == InitFn /\ [][NextFn]_vars

(***************************************************************************)
(* The aggregation and classification run again on one stored              *)
(* JobRequirements / ResumeAnalysis pair (main.py 21-46), by any evaluator *)
(* and for any position in a batch, after any earlier such runs.           *)
(***************************************************************************)
MaxReruns == 2

StoredJobRequirements == {r.value : r \in JobReplies \ {Unavailable, NotJson}}

StoredAnalyses == {r.value : r \in AnalysisReplies \ {Unavailable, NotJson}}

InitRerun ==
  /\ front = "fn"
  /\ pc = "rerun"
  /\ job_description = None
  /\ resume_files = [i \in 1..MaxReruns |-> i]
  /\ self = None
  /\ job_requirements \in StoredJobRequirements
  /\ id = 0
  /\ resume_text = None
  /\ analysis \in StoredAnalyses
  /\ skill_match_ratio = None
  /\ results = <<>>
  /\ evaluation = None
  /\ calls = <<>>
  /\ error = "none"
  /\ outputs = NoOutputs
  /\ session = NoSession
  /\ shown = <<>>
  /\ fn_args = None
  /\ fn_out = None

Rerun ==
  /\ pc = "rerun"
  /\ Len(results) < MaxReruns
  /\ \E e \in Evaluators, i \in 0..(Len(resume_files) - 1) :
       /\ self' = e
       /\ id' = i
       /\ skill_match_ratio' = skill_match_ratio_of(analysis, job_requirements)
       /\ results' = Append(results,
                            make_result(e, job_requirements, analysis,
                                        resume_files[i + 1]))
  /\ UNCHANGED <<front, pc, job_description, resume_files, job_requirements,
                 resume_text, analysis, evaluation, calls, error, outputs,
                 session, shown, fn_vars>>

NextRerun == Rerun

SpecRerun == InitRerun /\ [][NextRerun]_vars

(***************************************************************************)
(* Model discovery (utils.py 4-12): one GET of the local service's tag     *)
(* list.  The request, raise_for_status, the JSON decoding and the list    *)
(* comprehension all sit in one try block whose handler prints and returns *)
(* the empty list.                                                         *)
(***************************************************************************)
MaxModels == 3

ModelNames == {"gemma3:12b", "gemma3:27b", "llama3:8b"}

\* an entry of the "models" array: an object with a "name", or one without
ModelEntries == {[name |-> n] : n \in ModelNames} \cup {[size |-> 1]}

ModelLists == UNION {[1..n -> ModelEntries] : n \in 0..MaxModels}

\* what the GET can come to: no connection (or a timeout), a 4xx/5xx status,
\* a body that is not JSON, or a JSON body: an array, an object without
\* "models", an object with a "models" array
TagResponses ==
  {[kind |-> "connection_error"], [kind |-> "bad_status"], [kind |-> "unparsable"]}
    \cup {[kind |-> "ok", body |-> [json |-> "array"]]}
    \cup {[kind |-> "ok", body |-> [json |-> "object", members |-> [error |-> "none"]]]}
    \cup {[kind |-> "ok", body |-> [json |-> "object", members |-> [models |-> ms]]] :
            ms \in ModelLists}

\* a slip: a default model name handed back when the query fails
get_available_ollama_models_default(response) ==
  IF response.kind # "ok" \/ response.body.json # "object"
    THEN <<"gemma3:12b">>
    ELSE LET data   == response.body.members
             models == IF "models" \in DOMAIN data THEN data.models ELSE <<>>
         IN  IF \E i \in 1..Len(models) : "name" \notin DOMAIN models[i]
               THEN <<"gemma3:12b">>
               ELSE [i \in 1..Len(models) |-> models[i].name]

get_available_ollama_models(response) ==
  IF response.kind # "ok"
    THEN <<>>                               \* requests.get, raise_for_status
                                            \* or response.json() raised
    ELSE IF response.body.json # "object"
      THEN <<>>                             \* data.get: AttributeError
      ELSE LET data   == response.body.members
               models == IF "models" \in DOMAIN data THEN data.models ELSE <<>>
           IN  IF \E i \in 1..Len(models) : "name" \notin DOMAIN models[i]
                 THEN <<>>                  \* model["name"]: KeyError
                 ELSE [i \in 1..Len(models) |-> models[i].name]

InitModels ==
  /\ front = "fn"
  /\ pc = "call"
  /\ job_description = None
  /\ resume_files = <<>>
  /\ self = None
  /\ IdleRun
  /\ error = "none"
  /\ outputs = NoOutputs
  /\ session = NoSession
  /\ shown = <<>>
  /\ fn_args \in {[fn |-> "get_available_ollama_models", response |-> r] :
                    r \in TagResponses}
  /\ fn_out = None

CallGetAvailableOllamaModels ==
  /\ front = "fn" /\ pc = "call"
  /\ fn_args.fn = "get_available_ollama_models"
  /\ fn_out' = [value |-> get_available_ollama_models(fn_args.response)]
  /\ pc' = "returned"
  /\ UNCHANGED <<front, job_description, resume_files, self, run_vars, error,
                 outputs, session, shown, fn_args>>

NextModels == CallGetAvailableOllamaModels

SpecModels == InitModels /\ [][NextModels]_vars

(***************************************************************************)
(* A browser session of app.py: st.session_state lives on while the script *)
(* is run again for every click.  After a page is rendered the user may    *)
(* change the inputs of the sidebar and click Evaluate again, or, on the   *)
(* results page, click Start New Evaluation (app.py 557-561).  One resume  *)
(* at most is uploaded at a time.                                          *)
(***************************************************************************)
SessionBatches == {b \in Batches : Len(b) <= 1}

InitSession ==
  /\ front = "web"
  /\ pc = "start"
  /\ job_description \in {Text(""), Text(" "), Text("text")}
  /\ resume_files \in SessionBatches
  /\ self = None
  /\ IdleRun
  /\ error = "none"
  /\ outputs = NoOutputs
  /\ session = NoSession
  /\ shown = <<>>
  /\ fn_args = None
  /\ fn_out = None

\* the sidebar inputs are changed on a rendered page: the next click of
\* Evaluate starts from them, with a fresh handler and the session as it is
\* (app.py 161-165 initialise the session keys only when they are missing)
WebEditInputs ==
  /\ front = "web" /\ pc \in {"page", "welcome", "page_failed"}
  /\ job_description' \in {Text(""), Text(" "), Text("text")}
  /\ resume_files' \in SessionBatches
  /\ self' = None
  /\ job_requirements' = None
  /\ id' = 0
  /\ resume_text' = None
  /\ analysis' = None
  /\ skill_match_ratio' = None
  /\ results' = <<>>
  /\ evaluation' = None
  /\ calls' = <<>>
  /\ error' = "none"
  /\ shown' = <<>>
  /\ pc' = "start"
  /\ UNCHANGED <<front, outputs, session, fn_vars>>

\* a slip: the reset clears the results and leaves the flag
WebStartNewKeepingFlag ==
  /\ front = "web" /\ pc = "page"
  /\ session' = [session EXCEPT !.results = None]
  /\ error' = "none"
  /\ shown' = <<>>
  /\ pc' = "display"
  /\ UNCHANGED <<front, job_description, resume_files, self, run_vars,
                 outputs, fn_vars>>

\* app.py 557-561: the button stands at the end of the results page; it
\* clears both session keys and the script runs again
WebStartNew ==
  /\ front = "web" /\ pc = "page"
  /\ session' = [results |-> None, evaluation_done |-> FALSE]
  /\ error' = "none"
  /\ shown' = <<>>
  /\ pc' = "display"
  /\ UNCHANGED <<front, job_description, resume_files, self, run_vars,
                 outputs, fn_vars>>

NextSession ==
  \/ WebEvaluate
  \/ ExtractJobRequirements
  \/ ReadResume
  \/ AnalyzeResume
  \/ ScoreResume
  \/ ReturnReport
  \/ WebStore
  \/ WebCatch
  \/ WebDisplay
  \/ WebEditInputs
  \/ WebStartNew

SpecSession == InitSession /\ [][NextSession]_vars

(***************************************************************************)
(* Properties of the bare calls (checked under SpecFn).                    *)
(***************************************************************************)
Returned(fn) == front = "fn" /\ pc = "returned" /\ fn_args.fn = fn

\* C1: get_recommendation is total with closed-open buckets: Shortlist for
\* every score >= 0.75, Review for 0.50 <= score < 0.75, Reject below 0.50;
\* 0.75 -> Shortlist, 0.7499 -> Review, 0.5 -> Review, 0.4999 -> Reject, and
\* never a fourth value.  The score is compared as the exact decimal
\* p/10000, the result is what the float comparison of the code gave.
C1_RecommendationBuckets ==
  Returned("get_recommendation") =>
    LET p == fn_args.score
        r == fn_out.value
    IN  /\ r \in {"Shortlist", "Review", "Reject"}
        /\ (p >= 7500) = (r = "Shortlist")
        /\ (p >= 5000 /\ p < 7500) = (r = "Review")
        /\ (p < 5000) = (r = "Reject")
        /\ p = 7500 => r = "Shortlist"
        /\ p = 7499 => r = "Review"
        /\ p = 5000 => r = "Review"
        /\ p = 4999 => r = "Reject"

C1_Witness ==
  /\ Returned("get_recommendation")
  /\ fn_args.score = 7499
  /\ fn_out.value = "Review"

\* C2: calculate_fit_score returns 0.40*skill + 0.30*experience +
\* 0.15*production + 0.15*domain rounded to 2 decimal places, with no
\* clamping of out-of-range inputs; (1,1,1,1) gives 1.0, (0,0,0,0) gives 0.0.
\* With the ratio k/n and the sub-scores in tenths the exact sum is
\* num / (1000 n); the result must be the float of the hundredth nearest to
\* it (of either neighbour when the sum is exactly half-way).
C2_FitScoreFormula ==
  Returned("calculate_fit_score") =>
    LET a   == fn_args.args
        num == 400 * a.k
                 + a.n * (30 * a.experience_match + 15 * a.production_experience
                            + 15 * a.domain_fit)
        den == 10 * a.n
        lo  == num \div den
        rem == num % den
        r   == fn_out.value
    IN  /\ 2 * rem < den => r = Lit(lo, 100)
        /\ 2 * rem > den => r = Lit(lo + 1, 100)
        /\ 2 * rem = den => r \in {Lit(lo, 100), Lit(lo + 1, 100)}
        /\ (a.k = a.n /\ a.experience_match = 10 /\ a.production_experience = 10
              /\ a.domain_fit = 10) => r = Lit(1, 1)
        /\ (a.k = 0 /\ a.experience_match = 0 /\ a.production_experience = 0
              /\ a.domain_fit = 0) => r = FZero

\* an out-of-range call (ratio 2, sub-scores 1.5) has returned 1.7
C2_Witness ==
  /\ Returned("calculate_fit_score")
  /\ fn_args.args = [k |-> 2, n |-> 1, experience_match |-> 15,
                     production_experience |-> 15, domain_fit |-> 15]
  /\ fn_out.value = Lit(170, 100)

(***************************************************************************)
(* Properties of a batch run (checked under Spec).                         *)
(***************************************************************************)
Range(q) == {q[i] : i \in 1..Len(q)}

DuplicateFreeSubset(ms, required) ==
  /\ \A i \in 1..Len(ms) : ms[i] \in Range(required)
  /\ \A i, j \in 1..Len(ms) : i # j => ms[i] # ms[j]

InUnitInterval(x) == FLe(FZero, x) /\ FLe(x, F10)

WellFormed(r, reqs) ==
  /\ DuplicateFreeSubset(r.matched_skills, reqs.required_skills)
  /\ InUnitInterval(r.experience_match)
  /\ InUnitInterval(r.production_experience)
  /\ InUnitInterval(r.domain_fit)

\* C3: for every candidate of a report, if matched_skills is a
\* duplicate-free subset of required_skills and the three sub-scores lie in
\* [0,1], then the skill match ratio lies in [0,1] and so does the stored
\* fit_score.  (Also stated of the result list while the batch runs, whose
\* last entry was scored with the ratio held in skill_match_ratio.)
C3_UnitInterval ==
  /\ evaluation # None =>
       \A i \in 1..Len(evaluation.candidates) :
         LET c == evaluation.candidates[i] IN
         WellFormed(c, evaluation.job_requirements) =>
           /\ InUnitInterval(skill_match_ratio_of(c, evaluation.job_requirements))
           /\ InUnitInterval(c.fit_score)
  /\ (front # "fn" /\ results # <<>>) =>
       LET r == results[Len(results)] IN
       WellFormed(r, job_requirements) =>
         /\ InUnitInterval(skill_match_ratio)
         /\ InUnitInterval(r.fit_score)

\* a report holds a well-formed candidate matching every required skill with
\* all sub-scores 1.0: its fit_score is the upper end, 1.0
C3_Witness ==
  /\ evaluation # None
  /\ \E i \in 1..Len(evaluation.candidates) :
       LET c == evaluation.candidates[i] IN
       /\ WellFormed(c, evaluation.job_requirements)
       /\ Len(c.matched_skills) = 2
       /\ c.fit_score = F10

NonIncreasing(cs) ==
  \A i \in 1..(Len(cs) - 1) : FGe(cs[i].fit_score, cs[i + 1].fit_score)

\* C4: the candidates of the report returned by evaluate_resumes (and of
\* the one the web page stores) are non-increasing by fit_score.
C4_SortedDescending ==
  /\ evaluation # None => NonIncreasing(evaluation.candidates)
  /\ outputs.file # None => NonIncreasing(outputs.file.candidates)
  /\ session.results # None => NonIncreasing(session.results.candidates)

\* a report whose two candidates were scored in increasing order
C4_Witness ==
  /\ evaluation # None
  /\ Len(results) = 2
  /\ FLt(results[1].fit_score, results[2].fit_score)
  /\ evaluation.candidates = <<results[2], results[1]>>

\* C5: in every CandidateResult the recommendation is get_recommendation of
\* the stored fit_score, and two candidates with the same stored fit_score
\* carry the same recommendation.
C5_RecommendationFromScore ==
  front # "fn" =>
    /\ \A i \in 1..Len(results) :
         results[i].recommendation = get_recommendation(self, results[i].fit_score)
    /\ \A i, j \in 1..Len(results) :
         results[i].fit_score = results[j].fit_score
           => results[i].recommendation = results[j].recommendation
    /\ evaluation # None =>
         \A i \in 1..Len(evaluation.candidates) :
           evaluation.candidates[i].recommendation
             = get_recommendation(self, evaluation.candidates[i].fit_score)

\* two candidates with different analyses and the same stored fit_score
C5_Witness ==
  /\ evaluation # None
  /\ Len(results) = 2
  /\ results[1].fit_score = results[2].fit_score
  /\ results[1].matched_skills # results[2].matched_skills
  /\ results[1].recommendation = "Shortlist"

\* C6: with required_skills empty no step divides by zero: the scoring and
\* the skill-match percentage of the results page both use a denominator
\* floored at 1, and with matched_skills empty too the ratio is 0.0.
C6_NoDivisionByZero ==
  /\ error # "ZeroDivisionError"
  /\ (front # "fn" /\ results # <<>> /\ job_requirements.required_skills = <<>>
        /\ results[Len(results)].matched_skills = <<>>)
       => skill_match_ratio = FZero

F05 == Lit(5, 10)

F0665 == Lit(665, 1000)

F067 == Lit(67, 100)

Scenario(r, reqs) ==
  /\ reqs.required_skills = <<"Python", "SQL">>
  /\ r.matched_skills = <<"Python">>
  /\ r.experience_match = F07
  /\ r.production_experience = F10
  /\ r.domain_fit = F07

\* C7: with required_skills [Python, SQL], matched_skills [Python],
\* experience_match 0.7, production_experience 1.0 and domain_fit 0.7 the
\* pipeline computes the ratio 0.5, the weighted sum 0.665 (the float that
\* literal denotes), the stored fit_score 0.67 and the recommendation Review.
C7_EndToEnd ==
  (front # "fn" /\ results # <<>>) =>
    /\ \A i \in 1..Len(results) :
         Scenario(results[i], job_requirements) =>
           /\ results[i].fit_score = F067
           /\ results[i].recommendation = "Review"
    /\ Scenario(results[Len(results)], job_requirements) =>
         /\ skill_match_ratio = F05
         /\ weighted_sum(skill_match_ratio,
                         results[Len(results)].experience_match,
                         results[Len(results)].production_experience,
                         results[Len(results)].domain_fit) = F0665

C7_Witness ==
  /\ evaluation # None
  /\ Len(evaluation.candidates) = 1
  /\ Scenario(evaluation.candidates[1], evaluation.job_requirements)
  /\ evaluation.candidates[1].recommendation = "Review"

FailedAnalysis(i) ==
  calls[i].op = "analyze" /\ calls[i].kind = "unavailable"

\* C8: if the LLM call fails while any one resume is analyzed, the run ends
\* with an error for the whole batch: no resume after it is analyzed, no
\* result is appended for it, no report is returned or stored and the CLI
\* writes no evaluation_results.json.
C8_FailedAnalysisEndsBatch ==
  \A i \in 1..Len(calls) :
    FailedAnalysis(i) =>
      /\ i = Len(calls)
      /\ Len(results) = calls[i].id
      /\ evaluation = None
      /\ outputs.file = None
      /\ session = NoSession
      /\ pc \in {"score", "raised", "crashed", "display", "welcome"}
      /\ pc # "score" => error = "TypeError"

\* the analysis of the second resume failed and the command line run ended
C8_Witness ==
  /\ front = "cli"
  /\ pc = "crashed"
  /\ Len(calls) = 3
  /\ FailedAnalysis(3)
  /\ Len(results) = 1

\* C9: when the reply is not valid JSON get_llm_response signals a parse
\* failure to its caller and returns no value: the caller does not go on.
C9_ParseFailurePropagates ==
  \A i \in 1..Len(calls) :
    calls[i].kind = "not_json" => error # "none"

(***************************************************************************)
(* Properties of repeated runs on one stored pair (checked under           *)
(* SpecRerun).                                                             *)
(***************************************************************************)
\* C10: running the aggregation and classification again on the same
\* JobRequirements / ResumeAnalysis pair gives the same fit_score and
\* recommendation, whatever the evaluator's fields, the position in the
\* batch and the runs made before.
C10_SameResultOnRerun ==
  pc = "rerun" =>
    \A i, j \in 1..Len(results) :
      /\ results[i].fit_score = results[j].fit_score
      /\ results[i].recommendation = results[j].recommendation
      /\ results[i].matched_skills = analysis.matched_skills

\* the pair was run twice, at different positions, last by an evaluator in
\* debug mode
C10_Witness ==
  /\ pc = "rerun"
  /\ Len(results) = 2
  /\ results[1].file_name # results[2].file_name
  /\ self.debug_mode
  /\ results[1].fit_score = F067

(***************************************************************************)
(* Properties of the model discovery (checked under SpecModels).           *)
(***************************************************************************)
HasNamedModels(response) ==
  /\ response.kind = "ok"
  /\ response.body.json = "object"
  /\ "models" \in DOMAIN response.body.members
  /\ \A i \in 1..Len(response.body.members.models) :
       "name" \in DOMAIN response.body.members.models[i]

\* C11: get_available_ollama_models never fails: it returns a list of model
\* names (those the service reported, in its order), and the empty list both
\* when the service reports no models and when the query fails (no
\* connection, a bad status, a body that cannot be parsed).
C11_ModelDiscoveryNeverFails ==
  (front = "fn" /\ fn_args # None /\ fn_args.fn = "get_available_ollama_models") =>
    LET response == fn_args.response IN
    /\ error = "none"
    /\ pc = "returned" =>
         /\ fn_out.value \in Seq(ModelNames)
         /\ response.kind # "ok" => fn_out.value = <<>>
         /\ HasNamedModels(response) =>
              LET models == response.body.members.models IN
              /\ Len(fn_out.value) = Len(models)
              /\ \A i \in 1..Len(models) : fn_out.value[i] = models[i].name
              /\ models = <<>> => fn_out.value = <<>>
         /\ (response.kind = "ok" /\ ~HasNamedModels(response))
              => fn_out.value = <<>>

\* the body could not be parsed and the call has returned the empty list
C11_Witness ==
  /\ Returned("get_available_ollama_models")
  /\ fn_args.response.kind = "unparsable"
  /\ fn_out.value = <<>>

(***************************************************************************)
(* Properties of the command line run and of the batch (checked under      *)
(* Spec).                                                                  *)
(***************************************************************************)
\* C12: on the command line, when the resume folder holds no .txt file the
\* run prints its message and exits, with no evaluator constructed, no LLM
\* call made, no outputs directory created and no evaluation_results.json
\* written; when at least one resume file is found the run proceeds to
\* evaluation (outputs directory, evaluator) and the report the evaluation
\* returns is the one written under outputs.
C12_EarlyExitWithoutResumes ==
  (front = "cli" /\ pc # "start") =>
    /\ Len(resume_files) = 0 =>
         /\ pc = "exit"
         /\ self = None
         /\ calls = <<>>
         /\ outputs = NoOutputs
    /\ Len(resume_files) > 0 =>
         /\ self # None
         /\ outputs.dir
         /\ pc = "done" => (evaluation # None /\ outputs.file = evaluation)

ExtractorThenAnalyzerInOrder(log) ==
  /\ log # <<>> => log[1].op = "extract"
  /\ \A i \in 2..Len(log) : log[i].op = "analyze" /\ log[i].id = i - 2

\* C13: in a batch run over N resumes the extractor is invoked exactly once
\* and before any analysis; the analyzer is invoked once per resume, in input
\* order and without retries (N calls in a run that completes); the analyzer
\* is invoked for a resume only in the step after its text was read and
\* before its result is computed and appended, and the next resume is read
\* only when the result of the previous one is in the list.
C13_BatchSequence ==
  /\ [](/\ ExtractorThenAnalyzerInOrder(calls)
        /\ evaluation # None =>
             /\ Len(calls) = Len(resume_files) + 1
             /\ Len(results) = Len(resume_files)
        /\ pc \in {"read", "analyze"} =>
             (Len(calls) = id + 1 /\ Len(results) = id)
        /\ pc = "analyze" => resume_text # None
        /\ pc = "score" =>
             /\ Len(calls) = id + 2
             /\ calls[Len(calls)].id = id
             /\ Len(results) = id)
  /\ [][/\ pc' = "analyze" =>
             (pc = "read" /\ resume_text' # None /\ calls' = calls)
        /\ (calls' # calls /\ calls # <<>>) =>
             (pc = "analyze" /\ pc' = "score" /\ results' = results)
        /\ results' # results =>
             /\ pc = "score"
             /\ Len(results') = Len(results) + 1
             /\ results'[Len(results')].file_name = resume_files[id + 1]
             /\ id' = id + 1
        /\ pc' = "read" => Len(results') = id'
       ]_vars

\* a run over two resumes has completed: three calls, the extractor first
C13_Witness ==
  /\ evaluation # None
  /\ Len(resume_files) = 2
  /\ Len(calls) = 3
  /\ calls[1].op = "extract"
  /\ calls[2].id = 0
  /\ calls[3].id = 1
  /\ Len(evaluation.candidates) = 2

\* C14: when a file cannot be opened or read, read_file returns to its
\* caller without raising: no run ends by an exception of read_file itself,
\* and the caller goes on with the absent value in the text's place (the
\* command line, started on an unreadable job description and an empty
\* folder, reaches its input check and exits there).
C14_ReadFailureReturnsNoValue ==
  /\ error # "UnboundLocalError"
  /\ (front = "cli" /\ job_description = None /\ Len(resume_files) = 0
        /\ pc # "start") => pc = "exit"

InputPosition(c) ==
  CHOOSE k \in 1..Len(resume_files) : resume_files[k] = c.file_name

\* C15: the candidates of a report are the stable descending sort of the
\* per-resume results: as many as there are resume files, for each file
\* exactly one candidate, which is the result computed for that file;
\* non-increasing by fit_score; and candidates of equal fit_score in the
\* order in which their files were given.
C15_StableSortOfResults ==
  evaluation # None =>
    LET cs == evaluation.candidates IN
    /\ Len(cs) = Len(resume_files)
    /\ \A k \in 1..Len(resume_files) :
         \E i \in 1..Len(cs) :
           /\ cs[i] = results[k]
           /\ cs[i].file_name = resume_files[k]
           /\ \A j \in 1..Len(cs) : cs[j].file_name = resume_files[k] => j = i
    /\ NonIncreasing(cs)
    /\ \A i, j \in 1..Len(cs) :
         (i < j /\ cs[i].fit_score = cs[j].fit_score)
           => InputPosition(cs[i]) < InputPosition(cs[j])
    /\ outputs.file # None => outputs.file = evaluation
    /\ session.results # None => session.results = evaluation

\* two different results of one fit_score, reported in input order
C15_Witness ==
  /\ evaluation # None
  /\ Len(results) = 2
  /\ results[1].fit_score = results[2].fit_score
  /\ results[1].matched_skills # results[2].matched_skills
  /\ evaluation.candidates = results
  /\ evaluation.candidates[1].file_name = resume_files[1]

Rank(recommendation) ==
  CASE recommendation = "Shortlist" -> 1
    [] recommendation = "Review"    -> 2
    [] recommendation = "Reject"    -> 3

BlocksInOrder(cs) ==
  \A i, j \in 1..Len(cs) :
    i < j => Rank(cs[i].recommendation) <= Rank(cs[j].recommendation)

\* C16: in every report (returned, written or stored) the recommendations
\* read in rank order are a block of Shortlist, then a block of Review, then
\* a block of Reject: nobody recommended Review or Reject ranks above a
\* Shortlist, and no Reject above a Review.
C16_RecommendationBlocks ==
  /\ evaluation # None => BlocksInOrder(evaluation.candidates)
  /\ outputs.file # None => BlocksInOrder(outputs.file.candidates)
  /\ session.results # None => BlocksInOrder(session.results.candidates)

\* a Reject scored first and a Shortlist scored second, reported Shortlist
\* first
C16_Witness ==
  /\ evaluation # None
  /\ Len(results) = 2
  /\ results[1].recommendation = "Reject"
  /\ results[2].recommendation = "Shortlist"
  /\ evaluation.candidates[1].recommendation = "Shortlist"
  /\ evaluation.candidates[2].recommendation = "Reject"

(***************************************************************************)
(* Properties of a browser session (checked under SpecSession).            *)
(***************************************************************************)
\* C17: in the web front end, after any sequence of Evaluate clicks
\* (succeeding or failing) and Start New Evaluation clicks, evaluation_done
\* is true exactly when the session's results are set: an evaluation that
\* returns sets both (the results to its report), the reset clears both, an
\* evaluation that raises leaves both as they were, and no other step
\* touches them.
C17_DoneIffResults ==
  /\ [](session.evaluation_done = (session.results # None))
  /\ [][/\ pc = "returned" =>
             /\ evaluation # None
             /\ session' = [results |-> evaluation, evaluation_done |-> TRUE]
        /\ pc = "raised" => session' = session
        /\ (pc = "page" /\ pc' = "display") => session' = NoSession
        /\ session' # session => (pc = "returned" \/ (pc = "page" /\ pc' = "display"))
       ]_vars

\* with a report stored by an earlier click, an evaluation has raised and the
\* results page shows the earlier report again
C17_Witness ==
  /\ front = "web"
  /\ pc = "page"
  /\ error = "TypeError"
  /\ evaluation = None
  /\ session.evaluation_done
  /\ session.results # None
  /\ Len(shown) = 1

====
